---------------------------- MODULE Spec2Model ----------------------------
(***************************************************************************)
(* A model of spimio/dandi.py: RemotePath / DandiPath, a pathlib-like path *)
(* over the flat, prefix-addressed asset store of a DANDI collection, and  *)
(* the glob selector engine that runs on top of it.                        *)
(*                                                                         *)
(* Strings are sequences of one-character strings, so that parsing,        *)
(* formatting, prefix queries and pattern matching are computed and not    *)
(* assumed.  A path is a record [drv, root, parts, remote] as in the       *)
(* source (_drv, _root, _parts, remote); `parts` holds drv+root as its     *)
(* first element when the path is anchored, exactly as pathlib does.       *)
(***************************************************************************)
EXTENDS Naturals, Sequences, FiniteSets

VARIABLES store,   \* the collection's assets: asset.path strings, in listing order
          this,    \* the path object the caller holds
          input,   \* the argument the caller holds (a pattern, join arguments)
          last,    \* the most recent call on `this`: [op, res]
          nreq,    \* requests the most recent call issued to the Archive Session
          denied,  \* the path strings whose listing the Archive Session refuses
          cache,   \* the lru_cache of _make_selector: the chains built so far
          trav     \* the glob generators in flight, one per caller

vars == <<store, this, input, last, nreq, denied, cache, trav>>

-----------------------------------------------------------------------------
(* Bounds of the model *)

MaxAssets == 3       \* assets in a store of the primitives' specification
MaxGlobAssets == 3   \* assets in a store of the glob specification
MaxPatLen == 3       \* characters of a generated pattern string
MaxJoinArgs == 2     \* arguments of a join
MaxParts == 2        \* parts of a path in a sequence of path operations
MaxLiveAssets == 2   \* assets in a store that changes between calls
MaxCalls == 3        \* calls made in a row on one path
MaxDenied == 1       \* paths the Archive Session refuses to list
MaxChunks == 3       \* chunk files of a slab

-----------------------------------------------------------------------------
(* Strings *)

sep == "/"
None == "None"
EmptyStr == << >>

RECURSIVE Join(_, _)
\* str.join: glue.join(list)
Join(glue, list) ==
  IF Len(list) = 0 THEN EmptyStr
  ELSE IF Len(list) = 1 THEN list[1]
  ELSE list[1] \o glue \o Join(glue, Tail(list))

RECURSIVE split(_)
\* str.split(sep): the pieces between separators, empty pieces included
split(s) ==
  IF \A i \in 1..Len(s) : s[i] # sep THEN <<s>>
  ELSE LET i == CHOOSE k \in 1..Len(s) :
                  s[k] = sep /\ \A j \in 1..(k-1) : s[j] # sep
       IN <<SubSeq(s, 1, i-1)>> \o split(SubSeq(s, i+1, Len(s)))

RECURSIVE lstrip(_)
\* str.lstrip(sep)
lstrip(s) == IF Len(s) > 0 /\ s[1] = sep THEN lstrip(Tail(s)) ELSE s

startswith(s, prefix) ==
  Len(prefix) <= Len(s) /\ SubSeq(s, 1, Len(prefix)) = prefix

\* `sub in s` for strings
Contains(s, sub) ==
  \E i \in 1..(Len(s) + 1) :
    i + Len(sub) - 1 <= Len(s) /\ SubSeq(s, i, i + Len(sub) - 1) = sub

\* the elements of a sequence
Range(seq) == { seq[i] : i \in 1..Len(seq) }

\* all sequences over S of length at most n
RECURSIVE SeqsUpTo(_, _)
SeqsUpTo(S, n) ==
  IF n = 0 THEN { << >> }
  ELSE LET shorter == SeqsUpTo(S, n - 1)
       IN shorter \cup { Append(q, c) : q \in shorter, c \in S }

NoRepeat(seq) == \A i, j \in 1..Len(seq) : i # j => seq[i] # seq[j]

-----------------------------------------------------------------------------
(* pathlib's posix flavour, as dandi.py uses it through _flavour *)

\* _PosixFlavour.splitroot, for a part that starts with a separator: one
\* leading separator, or exactly two, is the root
SplitAnchored(part, stripped_part) ==
  IF Len(part) - Len(stripped_part) = 2
  THEN [drv |-> EmptyStr, root |-> <<sep, sep>>, rel |-> stripped_part]
  ELSE [drv |-> EmptyStr, root |-> <<sep>>, rel |-> stripped_part]

\* _PosixFlavour.splitroot(part) -> (drv, root, rel)
splitroot(part) ==
  IF Len(part) > 0 /\ part[1] = sep
  THEN SplitAnchored(part, lstrip(part))
  ELSE [drv |-> EmptyStr, root |-> EmptyStr, rel |-> part]

\* the components of rel that parse_parts keeps: neither empty nor '.'
Components(rel) ==
  SelectSeq(split(rel), LAMBDA x : x # EmptyStr /\ x # <<".">>)

RECURSIVE ParseLoop(_, _, _)

\* one pass of the loop of parse_parts, on a non-empty part split into sr:
\* an anchored part ends the loop
ParsePart(parts, i, parsed, sr) ==
  IF sr.root # EmptyStr
  THEN [drv |-> EmptyStr, root |-> sr.root,
        parts |-> <<sr.drv \o sr.root>> \o Components(sr.rel) \o parsed]
  ELSE ParseLoop(parts, i - 1, Components(sr.rel) \o parsed)

\* the loop of parse_parts over reversed(parts): i is the part being read,
\* parsed what the parts after it gave
ParseLoop(parts, i, parsed) ==
  IF i = 0 THEN [drv |-> EmptyStr, root |-> EmptyStr, parts |-> parsed]
  ELSE IF parts[i] = EmptyStr THEN ParseLoop(parts, i - 1, parsed)
  ELSE ParsePart(parts, i, parsed, splitroot(parts[i]))

\* _Flavour.parse_parts(parts) -> (drv, root, parsed)
parse_parts(parts) == ParseLoop(parts, Len(parts), << >>)

\* _Flavour.join_parsed_parts: an anchored second path replaces the first
join_parsed_parts(drv, root, parts, drv2, root2, parts2) ==
  IF root2 # EmptyStr
  THEN [drv |-> drv2, root |-> root2, parts |-> parts2]
  ELSE [drv |-> drv, root |-> root, parts |-> parts \o parts2]

\* PurePath._format_parsed_parts
_format_parsed_parts(drv, root, parts) ==
  IF drv # EmptyStr \/ root # EmptyStr
  THEN drv \o root \o Join(<<sep>>, Tail(parts))
  ELSE Join(<<sep>>, parts)

\* `s or '.'`
OrDot(s) == IF s = EmptyStr THEN <<".">> ELSE s

\* PurePath.__str__: the formatted parts, or '.'
str(p) == OrDot(_format_parsed_parts(p.drv, p.root, p.parts))

\* PurePath.__eq__ / __hash__: the (case-folded) parts only, never the remote
PathEq(p, q) == p.parts = q.parts

\* PurePath.name: the last part, '' for an anchor or an empty path
name(p) ==
  IF Len(p.parts) = (IF p.drv # EmptyStr \/ p.root # EmptyStr THEN 1 ELSE 0)
  THEN EmptyStr
  ELSE p.parts[Len(p.parts)]

-----------------------------------------------------------------------------
(* RemotePath: construction *)

\* a constructor argument is a str or a path object
StrArg(s) == [kind |-> "str", s |-> s]
PathArg(p) == [kind |-> "path", p |-> p]

\* `a or b` on remote handles (a handle object is truthy, None is not)
Or(a, b) == IF a # None THEN a ELSE b

RECURSIVE ArgsLoop(_, _, _, _)
\* the loop of _parse_args_with_remote: a path argument gives its _parts and
\* `remote = remote or a.remote`, a str argument gives itself
ArgsLoop(args, i, remote, parts) ==
  IF i > Len(args) THEN [remote |-> remote, parts |-> parts]
  ELSE IF args[i].kind = "path"
       THEN ArgsLoop(args, i + 1, Or(remote, args[i].p.remote),
                     parts \o args[i].p.parts)
       ELSE ArgsLoop(args, i + 1, remote, Append(parts, args[i].s))

\* (remote, *parsed)
WithRemote(remote, parsed) ==
  [remote |-> remote, drv |-> parsed.drv, root |-> parsed.root,
   parts |-> parsed.parts]

\* the return of _parse_args_with_remote, a being what its loop gathered
ParseGathered(a) == WithRemote(a.remote, parse_parts(a.parts))

\* RemotePath._parse_args_with_remote(args) -> (remote, drv, root, parts)
_parse_args_with_remote(args) == ParseGathered(ArgsLoop(args, 1, None, << >>))

\* RemotePath._from_parsed_parts
_from_parsed_parts(drv, root, parts, remote) ==
  [drv |-> drv, root |-> root, parts |-> parts, remote |-> remote]

\* a path of parsed (drv, root, parts) and a remote
FromParsed(t, remote) == _from_parsed_parts(t.drv, t.root, t.parts, remote)

\* RemotePath.__new__ / DandiPath.__new__(*args, dandiset=remote): _from_parts
\* parses the arguments, then `self.remote = remote` overrides what they gave
DandiPath(args, remote) == FromParsed(_parse_args_with_remote(args), remote)

\* DandiPath(s, dandiset=remote) for one str
P(s, remote) == DandiPath(<<StrArg(s)>>, remote)

\* _make_child, t being the parsed arguments, with `rem or self.remote`
MakeChildRemoteOfParts(self, t) ==
  FromParsed(join_parsed_parts(self.drv, self.root, self.parts,
                               t.drv, t.root, t.parts),
             Or(t.remote, self.remote))

\* a faulty variant of _make_child: remote = rem or self.remote
_make_child_handle_of_parts(self, args) ==
  MakeChildRemoteOfParts(self, _parse_args_with_remote(args))

\* _make_child, t being the parsed arguments
MakeChildOf(self, t) ==
  FromParsed(join_parsed_parts(self.drv, self.root, self.parts,
                               t.drv, t.root, t.parts),
             Or(self.remote, t.remote))

\* RemotePath._make_child(args): remote = self.remote or rem
_make_child(self, args) == MakeChildOf(self, _parse_args_with_remote(args))

\* PurePath.joinpath(*args)
joinpath(self, args) == _make_child(self, args)

\* a faulty variant of _make_child_relpath: the remote is not passed on
_make_child_relpath_unbound(self, part) ==
  _from_parsed_parts(self.drv, self.root, Append(self.parts, part), None)

\* RemotePath._make_child_relpath(part)
_make_child_relpath(self, part) ==
  _from_parsed_parts(self.drv, self.root, Append(self.parts, part), self.remote)

\* a faulty variant of parent: the anchor is not its own parent
parent_of_anchor_empty(self) ==
  _from_parsed_parts(self.drv, self.root,
                     SubSeq(self.parts, 1, Len(self.parts) - 1),
                     self.remote)

\* RemotePath.parent
parent(self) ==
  IF Len(self.parts) = 1 /\ (self.drv # EmptyStr \/ self.root # EmptyStr)
  THEN self
  ELSE _from_parsed_parts(self.drv, self.root,
                          SubSeq(self.parts, 1, Len(self.parts) - 1),
                          self.remote)

\* results of a call: a returned value, or a raised exception
Return(v) == [exc |-> None, val |-> v]
Raise(e) == [exc |-> e, val |-> None]

\* abs_parts / to_abs_parts of relative_to: drive and root as separate parts
AbsParts(drv, root, parts) ==
  IF root # EmptyStr THEN <<drv, root>> \o Tail(parts) ELSE parts

\* a faulty variant of relative_to's return: as many parts are kept, but
\* from the front
RelativeToAbs_keeps_front(self, abs_parts, to_abs_parts) ==
  IF (IF Len(to_abs_parts) = 0
      THEN self.root # EmptyStr \/ self.drv # EmptyStr
      ELSE \/ Len(abs_parts) < Len(to_abs_parts)
           \/ SubSeq(abs_parts, 1, Len(to_abs_parts)) # to_abs_parts)
  THEN Raise("ValueError")
  ELSE Return(_from_parsed_parts(
                EmptyStr,
                IF Len(to_abs_parts) = 1 THEN self.root ELSE EmptyStr,
                SubSeq(abs_parts, 1, Len(abs_parts) - Len(to_abs_parts)),
                self.remote))

\* relative_to, once abs_parts and to_abs_parts are known
RelativeToAbs(self, abs_parts, to_abs_parts) ==
  IF (IF Len(to_abs_parts) = 0
      THEN self.root # EmptyStr \/ self.drv # EmptyStr
      ELSE \/ Len(abs_parts) < Len(to_abs_parts)
           \/ SubSeq(abs_parts, 1, Len(to_abs_parts)) # to_abs_parts)
  THEN Raise("ValueError")
  ELSE Return(_from_parsed_parts(
                EmptyStr,
                IF Len(to_abs_parts) = 1 THEN self.root ELSE EmptyStr,
                SubSeq(abs_parts, Len(to_abs_parts) + 1, Len(abs_parts)),
                self.remote))

\* relative_to, `to` being the parsed arguments
RelativeToParsed(self, to) ==
  RelativeToAbs(self, AbsParts(self.drv, self.root, self.parts),
                AbsParts(to.drv, to.root, to.parts))

\* RemotePath.relative_to(*other)
relative_to(self, other) ==
  IF Len(other) = 0 THEN Raise("TypeError")
  ELSE RelativeToParsed(self, _parse_args_with_remote(other))

\* the body of is_relative_to, rel being the outcome of relative_to
NotDot(rel) ==
  IF rel.exc = "ValueError" THEN FALSE
  ELSE ~PathEq(rel.val, P(<<".">>, None))

\* DandiPath.is_relative_to(other): relative_to succeeds and is not '.'
is_relative_to(self, other) == NotDot(relative_to(self, <<PathArg(other)>>))

-----------------------------------------------------------------------------
(* The Archive Session (dandi's RemoteDandiset), over the flat store *)

\* dandiset.get_assets_with_path_prefix(prefix): the assets whose path string
\* starts with prefix, in listing order
get_assets_with_path_prefix(prefix) ==
  SelectSeq(store, LAMBDA a : startswith(a, prefix))

\* the Archive Session refuses the listing asked for this path: the request
\* is answered with a permission-denied error
Refused(self) == str(self) \in denied

\* dandiset.get_asset_by_path(path): found, or NotFoundError
get_asset_by_path(path) ==
  IF \E i \in 1..Len(store) : store[i] = path
  THEN Return(path) ELSE Raise("NotFoundError")

-----------------------------------------------------------------------------
(* DandiPath: the existence primitives.  Each gives [exc, val, req]: the    *)
(* exception raised (or None), the value returned or the sequence yielded,  *)
(* and the number of requests issued to the Archive Session.                *)

Result(exc, val, req) == [exc |-> exc, val |-> val, req |-> req]

\* a faulty variant of exists: the file case is not tested
exists_dir_only(self) ==
  IF self.remote = None THEN Result(None, FALSE, 0)
  ELSE IF Refused(self) THEN Result("PermissionError", None, 1)
  ELSE Result(None,
              \E a \in Range(get_assets_with_path_prefix(str(self))) :
                 is_relative_to(P(a, None), self),
              1)

\* the test of exists on one listed asset
ExistsTest(self, asset_path) ==
  \/ PathEq(asset_path, self)            \* file
  \/ is_relative_to(asset_path, self)    \* dir

\* DandiPath.exists
exists(self) ==
  IF self.remote = None THEN Result(None, FALSE, 0)
  ELSE IF Refused(self) THEN Result("PermissionError", None, 1)
  ELSE Result(None,
              \E a \in Range(get_assets_with_path_prefix(str(self))) :
                 ExistsTest(self, P(a, None)),
              1)

\* DandiPath.is_dir
is_dir(self) ==
  IF self.remote = None THEN Result(None, FALSE, 0)
  ELSE IF Refused(self) THEN Result("PermissionError", None, 1)
  ELSE Result(None,
              \E a \in Range(get_assets_with_path_prefix(str(self))) :
                 is_relative_to(P(a, None), self),
              1)

\* a faulty variant of is_file: NotFoundError is not told from success
is_file_found_or_not(self) ==
  IF self.remote = None THEN Result("AttributeError", None, 0)
  ELSE Result(None, TRUE, 1)

\* DandiPath.is_file: self.dandiset.get_asset_by_path on a None dandiset is
\* an AttributeError, which the except clause does not catch
is_file(self) ==
  IF self.remote = None THEN Result("AttributeError", None, 0)
  ELSE IF get_asset_by_path(str(self)).exc = "NotFoundError"
       THEN Result(None, FALSE, 1)
       ELSE Result(None, TRUE, 1)

\* `x in list` for a list of paths (list membership is by __eq__)
InPaths(x, list) == \E i \in 1..Len(list) : PathEq(list[i], x)

RECURSIVE ScandirLoop(_, _, _, _, _)

\* scandir on an asset below self: its pseudo-directory base is yielded
\* unless it was before
ScandirSubdir(self, assets, i, subdirs, out, base) ==
  IF InPaths(base, subdirs)
  THEN ScandirLoop(self, assets, i + 1, subdirs, out)
  ELSE ScandirLoop(self, assets, i + 1, Append(subdirs, base), Append(out, base))

\* one pass of the loop of scandir, on the listed asset's path
ScandirAsset(self, assets, i, subdirs, out, asset_path) ==
  IF PathEq(self, parent(asset_path))                             \* file
  THEN ScandirLoop(self, assets, i + 1, subdirs, Append(out, asset_path))
  ELSE IF is_relative_to(asset_path, self)                        \* subdir
  THEN ScandirSubdir(self, assets, i, subdirs, out,
         joinpath(self,
           <<StrArg(relative_to(asset_path, <<PathArg(self)>>).val.parts[1])>>))
  ELSE ScandirLoop(self, assets, i + 1, subdirs, out)

\* the loop of scandir over the prefix listing: i is the asset being read,
\* subdirs the pseudo-directories already yielded, out what was yielded
ScandirLoop(self, assets, i, subdirs, out) ==
  IF i > Len(assets) THEN out
  ELSE ScandirAsset(self, assets, i, subdirs, out, P(assets[i], self.remote))

\* scandir, d being the outcome of self.is_dir()
ScandirIfDir(self, d) ==
  IF d.exc # None THEN Result(d.exc, << >>, d.req)
  ELSE IF ~d.val THEN Result("NotADirectoryError", << >>, d.req)
  ELSE Result(None,
              ScandirLoop(self, get_assets_with_path_prefix(str(self)),
                          1, << >>, << >>),
              d.req + 1)

\* DandiPath.scandir, iterated to its end
scandir(self) == ScandirIfDir(self, is_dir(self))

RECURSIVE IterdirLoop(_, _, _, _, _)

\* iterdir on an asset below self: the name base is yielded unless it was
IterdirSubdir(self, assets, i, subdirs, out, base) ==
  IF base \in Range(subdirs)
  THEN IterdirLoop(self, assets, i + 1, subdirs, out)
  ELSE IterdirLoop(self, assets, i + 1, Append(subdirs, base), Append(out, base))

\* one pass of the loop of iterdir, on the listed asset's path
IterdirAsset(self, assets, i, subdirs, out, asset_path) ==
  IF PathEq(self, parent(asset_path))                             \* file
  THEN IterdirLoop(self, assets, i + 1, subdirs,
                   Append(out, asset_path.parts[Len(asset_path.parts)]))
  ELSE IF is_relative_to(asset_path, self)                        \* subdir
  THEN IterdirSubdir(self, assets, i, subdirs, out,
         relative_to(asset_path, <<PathArg(self)>>).val.parts[1])
  ELSE IterdirLoop(self, assets, i + 1, subdirs, out)

\* the loop of iterdir: as scandir's, over names (str) and not paths
IterdirLoop(self, assets, i, subdirs, out) ==
  IF i > Len(assets) THEN out
  ELSE IterdirAsset(self, assets, i, subdirs, out, P(assets[i], None))

\* iterdir, d being the outcome of self.is_dir()
IterdirIfDir(self, d) ==
  IF d.exc # None THEN Result(d.exc, << >>, d.req)
  ELSE IF ~d.val THEN Result("NotADirectoryError", << >>, d.req)
  ELSE Result(None,
              IterdirLoop(self, get_assets_with_path_prefix(str(self)),
                          1, << >>, << >>),
              d.req + 1)

\* DandiPath.iterdir, iterated to its end
iterdir(self) == IterdirIfDir(self, is_dir(self))

-----------------------------------------------------------------------------
(* Globbing helpers: the selector chain *)

\* _is_wildcard_pattern(pat)
_is_wildcard_pattern(pat) ==
  \E i \in 1..Len(pat) : pat[i] \in {"*", "?", "["}

RECURSIVE match(_, _)
\* _flavour.compile_pattern(pat) applied to a name: fnmatch, where '*' stands
\* for any run of characters and '?' for any one character
match(nm, pat) ==
  IF Len(pat) = 0 THEN Len(nm) = 0
  ELSE IF pat[1] = "*"
       THEN match(nm, Tail(pat)) \/ (Len(nm) > 0 /\ match(Tail(nm), pat))
  ELSE IF pat[1] = "?"
       THEN Len(nm) > 0 /\ match(Tail(nm), Tail(pat))
  ELSE Len(nm) > 0 /\ nm[1] = pat[1] /\ match(Tail(nm), Tail(pat))

Recursive == "_RecursiveWildcardSelector"
Wildcard == "_WildcardSelector"
Precise == "_PreciseSelector"
Terminating == "_TerminatingSelector"

\* a selector with its successor: the chain from it on
Chain(node, successor) ==
  IF successor.exc # None THEN successor
  ELSE Return(<<node>> \o successor.val)

RECURSIVE MakeChain(_)

\* cls(pat, pattern_path): _Selector.__init__ builds the successor at once,
\* and dironly is whether there is one
NewSelector(cls, pat, pattern_path) ==
  IF Len(pattern_path) = 0
  THEN Return(<<[cls |-> cls, pat |-> pat, dironly |-> FALSE],
                [cls |-> Terminating]>>)
  ELSE Chain([cls |-> cls, pat |-> pat, dironly |-> TRUE],
             MakeChain(pattern_path))

\* _make_selector, pat being the first part and pattern_path the others
SelectorFor(pat, pattern_path) ==
  IF pat = <<"*", "*">> THEN NewSelector(Recursive, pat, pattern_path)
  ELSE IF Contains(pat, <<"*", "*">>) THEN Raise("ValueError")
  ELSE IF _is_wildcard_pattern(pat) THEN NewSelector(Wildcard, pat, pattern_path)
  ELSE NewSelector(Precise, pat, pattern_path)

\* _make_selector(pattern_path) on the pattern's parts: the chain of
\* selectors, the terminating selector last, or the error raised while
\* building it (pattern_path.parts[0] of no parts is an IndexError)
MakeChain(parts) ==
  IF Len(parts) = 0 THEN Raise("IndexError")
  ELSE SelectorFor(parts[1], parse_parts(Tail(parts)).parts)

RECURSIVE MakeChainUnchecked(_)
\* a chain built without the test for '**' inside a component
MakeChainUnchecked(parts) ==
  IF Len(parts) = 0 THEN Raise("IndexError")
  ELSE LET pat == parts[1]
           cls == IF pat = <<"*", "*">> THEN Recursive
                  ELSE IF _is_wildcard_pattern(pat) THEN Wildcard
                  ELSE Precise
       IN IF Len(parts) = 1
          THEN Return(<<[cls |-> cls, pat |-> pat, dironly |-> FALSE],
                        [cls |-> Terminating]>>)
          ELSE Chain([cls |-> cls, pat |-> pat, dironly |-> TRUE],
                     MakeChainUnchecked(Tail(parts)))

\* a faulty variant of _make_selector: only the first component is tested
\* for '**' when the chain is built
_make_selector_first_only(parts) ==
  IF Len(parts) > 0 /\ parts[1] # <<"*", "*">>
       /\ Contains(parts[1], <<"*", "*">>)
  THEN Raise("ValueError")
  ELSE MakeChainUnchecked(parts)

\* _make_selector(pattern_path), given the pattern's parts
_make_selector(parts) == MakeChain(parts)

\* what `except PermissionError: return` makes of an outcome
ExceptPermissionError(r) ==
  IF r.exc = "PermissionError" THEN Result(None, r.val, r.req) ELSE r

\* `p not in yielded` over a run of yields: each path where it is first seen
RECURSIVE Dedup(_, _)
Dedup(paths, yielded) ==
  IF Len(paths) = 0 THEN << >>
  ELSE IF paths[1].parts \in yielded THEN Dedup(Tail(paths), yielded)
  ELSE <<paths[1]>> \o Dedup(Tail(paths), yielded \cup {paths[1].parts})

\* what was yielded so far, then req requests, then what sub yields
Extend(acc, req, sub) ==
  Result(sub.exc, acc.val \o sub.val, acc.req + req + sub.req)

RECURSIVE _select_from(_, _, _)
RECURSIVE WildcardLoop(_, _, _, _, _, _)
RECURSIVE _iterate_directories(_)
RECURSIVE IterateLoop(_, _, _, _)
RECURSIVE RecursiveLoop(_, _, _, _, _)

\* _TerminatingSelector._select_from
SelectTerminating(parent_path) == Result(None, <<parent_path>>, 0)

\* _PreciseSelector._select_from, c being the outcome of path.is_dir() or
\* path.exists()
PreciseTested(sel, k, path, c) ==
  IF c.exc # None THEN ExceptPermissionError(Result(c.exc, << >>, c.req))
  ELSE IF ~c.val THEN Result(None, << >>, c.req)
  ELSE ExceptPermissionError(
         Extend(Result(None, << >>, 0), c.req, _select_from(sel, k + 1, path)))

\* _PreciseSelector._select_from on the child path
PreciseChild(sel, k, path) ==
  PreciseTested(sel, k, path,
                IF sel[k].dironly THEN is_dir(path) ELSE exists(path))

\* _PreciseSelector._select_from
SelectPrecise(sel, k, parent_path) ==
  PreciseChild(sel, k, _make_child_relpath(parent_path, sel[k].pat))

\* the loop of _WildcardSelector._select_from, after the successor ran
WildcardNext(sel, k, parent_path, entries, i, now) ==
  IF now.exc # None THEN now
  ELSE WildcardLoop(sel, k, parent_path, entries, i + 1, now)

\* one pass of the loop of _WildcardSelector._select_from, d being the
\* outcome of entry.is_dir() when dironly
WildcardEntry(sel, k, parent_path, entries, i, acc, d) ==
  IF d.exc # None THEN Result(d.exc, acc.val, acc.req + d.req)
  ELSE IF ~d.val \/ ~match(name(entries[i]), sel[k].pat)
  THEN WildcardLoop(sel, k, parent_path, entries, i + 1,
                    Result(None, acc.val, acc.req + d.req))
  ELSE WildcardNext(sel, k, parent_path, entries, i,
         Extend(acc, d.req,
                _select_from(sel, k + 1,
                             _make_child_relpath(parent_path, name(entries[i])))))

\* the loop of _WildcardSelector._select_from over the scanned entries
WildcardLoop(sel, k, parent_path, entries, i, acc) ==
  IF i > Len(entries) THEN acc
  ELSE WildcardEntry(sel, k, parent_path, entries, i, acc,
                     IF sel[k].dironly THEN is_dir(entries[i])
                     ELSE Result(None, TRUE, 0))

\* _WildcardSelector._select_from, sc being list(parent_path.scandir())
WildcardScanned(sel, k, parent_path, sc) ==
  IF sc.exc # None THEN ExceptPermissionError(Result(sc.exc, << >>, sc.req))
  ELSE ExceptPermissionError(
         WildcardLoop(sel, k, parent_path, sc.val, 1,
                      Result(None, << >>, sc.req)))

\* _WildcardSelector._select_from
SelectWildcard(sel, k, parent_path) ==
  WildcardScanned(sel, k, parent_path, scandir(parent_path))

\* the loop of _iterate_directories, after the directories below an entry
IterateNext(parent_path, entries, i, now) ==
  IF now.exc # None THEN now
  ELSE IterateLoop(parent_path, entries, i + 1, now)

\* one pass of the loop of _iterate_directories, d being the outcome of
\* entry.is_dir()
IterateEntry(parent_path, entries, i, acc, d) ==
  IF d.exc # None THEN Result(d.exc, acc.val, acc.req + d.req)
  ELSE IF ~d.val
  THEN IterateLoop(parent_path, entries, i + 1,
                   Result(None, acc.val, acc.req + d.req))
  ELSE IterateNext(parent_path, entries, i,
         Extend(acc, d.req,
                _iterate_directories(
                  _make_child_relpath(parent_path, name(entries[i])))))

\* the loop of _iterate_directories over the scanned entries
IterateLoop(parent_path, entries, i, acc) ==
  IF i > Len(entries) THEN acc
  ELSE IterateEntry(parent_path, entries, i, acc, is_dir(entries[i]))

\* _iterate_directories, sc being list(parent_path.scandir())
IterateScanned(parent_path, sc) ==
  IF sc.exc # None
  THEN ExceptPermissionError(Result(sc.exc, <<parent_path>>, sc.req))
  ELSE ExceptPermissionError(
         IterateLoop(parent_path, sc.val, 1,
                     Result(None, <<parent_path>>, sc.req)))

\* _RecursiveWildcardSelector._iterate_directories: parent_path, then every
\* directory below it, depth first
_iterate_directories(parent_path) ==
  IterateScanned(parent_path, scandir(parent_path))

\* the loop of _RecursiveWildcardSelector._select_from, after the successor
RecursiveNext(sel, k, dirs, i, now) ==
  IF now.exc # None THEN now
  ELSE RecursiveLoop(sel, k, dirs, i + 1, now)

\* the loop of _RecursiveWildcardSelector._select_from over starting points
RecursiveLoop(sel, k, dirs, i, acc) ==
  IF i > Len(dirs) THEN acc
  ELSE RecursiveNext(sel, k, dirs, i,
                     Extend(acc, 0, _select_from(sel, k + 1, dirs[i])))

\* `if p not in yielded: yield p` over everything the loop produced
Yielded(all) ==
  ExceptPermissionError(Result(all.exc, Dedup(all.val, {}), all.req))

\* _RecursiveWildcardSelector._select_from, dirs being what
\* _iterate_directories gives
RecursiveOver(sel, k, dirs) ==
  IF dirs.exc # None
  THEN ExceptPermissionError(Result(dirs.exc, << >>, dirs.req))
  ELSE Yielded(RecursiveLoop(sel, k, dirs.val, 1,
                             Result(None, << >>, dirs.req)))

\* _RecursiveWildcardSelector._select_from
SelectRecursive(sel, k, parent_path) ==
  RecursiveOver(sel, k, _iterate_directories(parent_path))

\* <selector k of the chain>._select_from(parent_path), iterated to its end
_select_from(sel, k, parent_path) ==
  IF sel[k].cls = Terminating THEN SelectTerminating(parent_path)
  ELSE IF sel[k].cls = Precise THEN SelectPrecise(sel, k, parent_path)
  ELSE IF sel[k].cls = Wildcard THEN SelectWildcard(sel, k, parent_path)
  ELSE SelectRecursive(sel, k, parent_path)

\* select_from, d being the outcome of parent_path.is_dir()
SelectIfDir(sel, parent_path, d) ==
  IF d.exc # None THEN Result(d.exc, << >>, d.req)
  ELSE IF ~d.val THEN Result(None, << >>, d.req)
  ELSE Extend(Result(None, << >>, 0), d.req, _select_from(sel, 1, parent_path))

\* _Selector.select_from(parent_path)
select_from(sel, parent_path) == SelectIfDir(sel, parent_path, is_dir(parent_path))

\* `for p in selector.select_from(self): yield p`, selector being what
\* _make_selector gave or raised
SelectWith(selector, self) ==
  IF selector.exc # None THEN Result(selector.exc, << >>, 0)
  ELSE select_from(selector.val, self)

\* RemotePath.glob(pattern), iterated to its end
glob(self, pattern) ==
  IF pattern = EmptyStr THEN Result("ValueError", << >>, 0)
  ELSE IF parse_parts(<<pattern>>).root # EmptyStr
  THEN Result("NotImplementedError", << >>, 0)
  ELSE SelectWith(_make_selector(P(pattern, self.remote).parts), self)

\* a faulty variant of rglob: the pattern is not put below '**'
rglob_as_glob(self, pattern) ==
  IF parse_parts(<<pattern>>).root # EmptyStr
  THEN Result("NotImplementedError", << >>, 0)
  ELSE SelectWith(_make_selector(P(pattern, self.remote).parts), self)

\* RemotePath.rglob(pattern), iterated to its end
rglob(self, pattern) ==
  IF parse_parts(<<pattern>>).root # EmptyStr
  THEN Result("NotImplementedError", << >>, 0)
  ELSE SelectWith(
         _make_selector(
           joinpath(P(<<"*", "*">>, None),
                    <<PathArg(P(pattern, self.remote))>>).parts),
         self)

-----------------------------------------------------------------------------
(* The primitives' specification: any store of at most MaxAssets assets,    *)
(* in any listing order, and the five primitives called on any query path.  *)

Handles == {"H1", "H2"}

\* asset paths, as the archive stores them ('s0/a' shares the string prefix
\* 's' with the assets of directory 's' without lying in it; '.h' is a
\* hidden file at the top level)
AssetUniverse ==
  { <<"s","/","t","/","a">>, <<"s","/","t","/","b">>, <<"s","/","u","/","b">>,
    <<"s","0","/","a">>, <<"s","/","a">>, <<".","h">>, <<"a">> }

FsStores == { q \in SeqsUpTo(AssetUniverse, MaxAssets) : NoRepeat(q) }

\* the strings query paths are built from; '' is the collection's top level
QueryStrings ==
  { EmptyStr, <<"s">>, <<"s","/","t">>, <<"s","/","t","/","a">>, <<"s","0">>,
    <<"/","s">>, <<"a">>, <<"s","/">>, <<"t">> }

QueryPaths == { P(q, h) : q \in QueryStrings, h \in {None, "H1"} }

\* a call on `this`, iterated to its end: its outcome and its requests
Call(op, r) ==
  /\ last' = [op |-> op, res |-> [exc |-> r.exc, val |-> r.val]]
  /\ nreq' = r.req
  /\ UNCHANGED <<store, this, input, denied, cache, trav>>

NoCall == [op |-> "none", res |-> [exc |-> None, val |-> None]]

\* no chain was built yet and no glob generator is in flight
NoGlobs == cache = {} /\ trav = << >>

InitFs ==
  /\ store \in FsStores /\ this \in QueryPaths /\ input = None
  /\ last = NoCall /\ nreq = 0 /\ denied = {} /\ NoGlobs

Exists == Call("exists", exists(this))
IsDir == Call("is_dir", is_dir(this))
IsFile == Call("is_file", is_file(this))
Scandir == Call("scandir", scandir(this))
Iterdir == Call("iterdir", iterdir(this))

NextFs == Exists \/ IsDir \/ IsFile \/ Scandir \/ Iterdir

SpecFs == InitFs /\ [][NextFs]_vars

-----------------------------------------------------------------------------
(* What the claims speak of, stated on the store and not on the code *)

\* the segments of an asset's path
Segments(asset) == parse_parts(<<asset>>).parts

\* the asset lies strictly below path p: p's segments are a proper prefix of its own
StrictlyBelow(asset, p) ==
  LET seg == Segments(asset)
  IN Len(p.parts) < Len(seg) /\ SubSeq(seg, 1, Len(p.parts)) = p.parts

\* p is a directory of the store
IsDirectory(p) == \E i \in 1..Len(store) : StrictlyBelow(store[i], p)

\* an asset of the store lies at exactly p
IsAsset(p) == \E i \in 1..Len(store) : Segments(store[i]) = p.parts

RECURSIVE FirstSeen(_, _)
\* a sequence without its repetitions, each element where it is first seen
FirstSeen(seq, seen) ==
  IF Len(seq) = 0 THEN << >>
  ELSE IF seq[1] \in seen THEN FirstSeen(Tail(seq), seen)
  ELSE <<seq[1]>> \o FirstSeen(Tail(seq), seen \cup {seq[1]})

\* the names of d's children: the first segment below d of every asset
\* strictly below d, in listing order, each once
ChildNames(d) ==
  LET below == SelectSeq(store, LAMBDA a : StrictlyBelow(a, d))
  IN FirstSeen([i \in 1..Len(below) |-> Segments(below[i])[Len(d.parts) + 1]], {})

\* the segments of every path of a sequence of paths
PartsOf(paths) == [i \in 1..Len(paths) |-> paths[i].parts]

-----------------------------------------------------------------------------
(* Claims C1 - C4: the existence primitives *)

\* C1: for every path with a remote handle, the top-level path included,
\* is_dir is true iff an asset lies strictly below it segment-wise.
C1_IsDirIffAssetBelow ==
  (last.op = "is_dir" /\ this.remote # None)
     => (last.res.exc = None /\ (last.res.val <=> IsDirectory(this)))

\* C2: is_file never raises, with or without a handle, and is true iff an
\* asset lies at exactly this path.
C2_IsFileNeverRaises ==
  last.op = "is_file"
     => /\ last.res.exc = None
        /\ last.res.val \in BOOLEAN
        /\ this.remote # None => (last.res.val <=> IsAsset(this))

\* C3: exists is false for every path without a handle, and true for every
\* path with a handle that equals the path of an asset of the store.
C3_ExistsHandleAndAsset ==
  last.op = "exists"
     => /\ last.res.exc = None
        /\ this.remote = None => last.res.val = FALSE
        /\ (this.remote # None /\ IsAsset(this)) => last.res.val = TRUE

\* C3's case: exists was called, with a handle, on the path of an asset
C3_Witness ==
  /\ last.op = "exists" /\ this.remote # None /\ IsAsset(this)
  /\ last.res.val = TRUE

\* C4: for every directory d and listing order, scandir and iterdir yield
\* d's children, one entry each, in first-seen order.
C4_ChildrenInFirstSeenOrder ==
  (last.op \in {"scandir", "iterdir"} /\ this.remote # None
     /\ IsDirectory(this))
     => /\ last.res.exc = None
        /\ last.op = "scandir" =>
             /\ PartsOf(last.res.val) =
                  [i \in 1..Len(ChildNames(this)) |->
                     Append(this.parts, ChildNames(this)[i])]
        /\ last.op = "iterdir" => last.res.val = ChildNames(this)

-----------------------------------------------------------------------------
(* The glob specification: glob and rglob, iterated to their end, from a    *)
(* start path over a store of at most MaxGlobAssets assets.                 *)

\* 's/t/a.h', 's/t/a.j', 's/u/b.h' stand for the scenario's
\* 'sub-01/ses-1/a.h5', 'sub-01/ses-1/a.json', 'sub-01/ses-2/b.h5'
Scenario ==
  << <<"s","/","t","/","a",".","h">>, <<"s","/","t","/","a",".","j">>,
     <<"s","/","u","/","b",".","h">> >>

GlobUniverse ==
  Range(Scenario) \cup { <<"s","/","a",".","h">>, <<"a",".","h">> }

\* 'a.h' at depths 0, 2 and 3 below directory 's'
DepthScenario ==
  << <<"s","/","a",".","h">>, <<"s","/","t","/","u","/","a",".","h">>,
     <<"s","/","t","/","u","/","v","/","a",".","h">> >>

GlobStores ==
  { q \in SeqsUpTo(GlobUniverse, MaxGlobAssets) : NoRepeat(q) }
     \cup {DepthScenario}

\* the start paths of a glob: the top level, with and without a handle, and
\* two directories below it
StartPaths ==
  { P(EmptyStr, "H1"), P(EmptyStr, None), P(<<"s">>, "H1"),
    P(<<"s","/","t">>, "H1") }

PatternAlphabet == {"s", "*", "/"}

\* pattern strings: every string of at most MaxPatLen characters, and the
\* longer patterns of the scenarios
Patterns ==
  SeqsUpTo(PatternAlphabet, MaxPatLen) \cup
  { <<"s","/","*","*","/","*",".","h">>, <<"*","*","/","a",".","h">>,
    <<"*","*","/","*","*","/","a",".","h">>, <<"*",".","h">>,
    <<"*","*","/","*",".","h">>, <<"s","/","*","/","a",".","h">>,
    <<"*","*","/","s","*","*">>, <<"/","*","*","/","a">>, <<".">>,
    <<".","/","*">>, <<"?",".","h">>, <<"*","*","/","?">> }

InitGlob ==
  /\ store \in GlobStores /\ this \in StartPaths /\ input \in Patterns
  /\ last = NoCall /\ nreq = 0 /\ denied = {} /\ NoGlobs

Glob == Call("glob", glob(this, input))

Rglob == Call("rglob", rglob(this, input))

NextGlob == Glob \/ Rglob

SpecGlob == InitGlob /\ [][NextGlob]_vars

-----------------------------------------------------------------------------
(* What the glob claims speak of, stated on the store and not on the code *)

\* the paths that exist in the store, as segment sequences: every asset and
\* every pseudo-directory above one
ExistingParts ==
  UNION { { SubSeq(Segments(store[i]), 1, n) :
              n \in 1..Len(Segments(store[i])) } : i \in 1..Len(store) }

\* the segment sequence q is a directory of the store
IsDirectoryParts(q) ==
  \E i \in 1..Len(store) :
     LET seg == Segments(store[i])
     IN Len(q) < Len(seg) /\ SubSeq(seg, 1, Len(q)) = q

\* the components of a pattern string
PatternParts(pattern) == parse_parts(<<pattern>>).parts

\* no component holds '**' together with other characters
WellFormedParts(comps) ==
  \A i \in 1..Len(comps) :
     comps[i] = <<"*", "*">> \/ ~Contains(comps[i], <<"*", "*">>)

RECURSIVE MatchesBelow(_, _, _)
\* the segments rel, read below the directory `at`, match the components:
\* '**' stands for any run of directories, every other component for one
\* segment, and a path that is not last must be a directory
MatchesBelow(at, rel, comps) ==
  IF Len(comps) = 0 THEN Len(rel) = 0
  ELSE IF comps[1] = <<"*", "*">>
  THEN \/ /\ Len(comps) = 1 => (Len(rel) = 0 /\ IsDirectoryParts(at))
          /\ MatchesBelow(at, rel, Tail(comps))
       \/ /\ Len(rel) > 0
          /\ IsDirectoryParts(Append(at, rel[1]))
          /\ MatchesBelow(Append(at, rel[1]), Tail(rel), comps)
  ELSE /\ Len(rel) > 0
       /\ match(rel[1], comps[1])
       /\ Len(comps) > 1 => IsDirectoryParts(Append(at, rel[1]))
       /\ MatchesBelow(Append(at, rel[1]), Tail(rel), Tail(comps))

\* the paths at or below d that the pattern's components select
Selected(d, comps) ==
  { q \in ExistingParts \cup {d.parts} :
      /\ Len(q) >= Len(d.parts)
      /\ SubSeq(q, 1, Len(d.parts)) = d.parts
      /\ MatchesBelow(d.parts, SubSeq(q, Len(d.parts) + 1, Len(q)), comps) }

\* the call yielded exactly the paths of the set, each once
YieldedExactly(res, set) ==
  /\ res.exc = None
  /\ Range(PartsOf(res.val)) = set
  /\ NoRepeat(PartsOf(res.val))

\* a pattern the claims call malformed
IsAbsolute(pattern) == Len(pattern) > 0 /\ pattern[1] = sep
HasMixedRecursive(pattern) ==
  \E i \in 1..Len(split(pattern)) :
     /\ split(pattern)[i] # <<"*", "*">>
     /\ Contains(split(pattern)[i], <<"*", "*">>)

-----------------------------------------------------------------------------
(* Claims C5 - C9: glob and rglob *)

\* C5: for every directory d, d.glob('*') yields exactly the direct
\* children of d, each once.
C5_GlobStarYieldsChildren ==
  (last.op = "glob" /\ input = <<"*">> /\ this.remote # None
     /\ IsDirectory(this))
     => YieldedExactly(last.res,
          { Append(this.parts, ChildNames(this)[i]) :
              i \in 1..Len(ChildNames(this)) })

\* C6: at the top-level path with a handle, glob('sub-01/**/*.h5') yields
\* exactly the paths at any depth below 'sub-01' whose last segment matches
\* '*.h5'; on the scenario's store, 'sub-01/ses-1/a.h5' and
\* 'sub-01/ses-2/b.h5'.
C6_ScenarioGlobFromTopLevel ==
  (last.op = "glob" /\ this = P(EmptyStr, "H1")
     /\ input = <<"s","/","*","*","/","*",".","h">>)
     => /\ YieldedExactly(last.res,
             { q \in ExistingParts :
                 /\ Len(q) >= 2 /\ q[1] = <<"s">>
                 /\ match(q[Len(q)], <<"*",".","h">>) })
        /\ Range(store) = Range(Scenario)
             => Range(PartsOf(last.res.val)) =
                  { <<<<"s">>, <<"t">>, <<"a",".","h">>>>,
                    <<<<"s">>, <<"u">>, <<"b",".","h">>>> }

\* C7: for every directory d and every pattern whose first component is
\* '**', d.glob(pattern) yields every matching path at or below d, and no
\* path twice.
C7_RecursiveGlobYieldsAllOnce ==
  (last.op = "glob" /\ this.remote # None /\ IsDirectory(this)
     /\ ~IsAbsolute(input) /\ Len(PatternParts(input)) > 0
     /\ PatternParts(input)[1] = <<"*", "*">>
     /\ WellFormedParts(PatternParts(input)))
     => YieldedExactly(last.res, Selected(this, PatternParts(input)))

\* C8, as claimed: for every pattern string p, rglob(p) has the outcome of
\* glob('**/' + p).
C8_RglobIsGlobBelowRecursive_AnyPattern ==
  last.op = "rglob"
     => LET g == glob(this, <<"*", "*", "/">> \o input)
        IN last.res = [exc |-> g.exc, val |-> g.val]

\* C8, amended: for every pattern string p without a root, rglob(p) has the
\* outcome of glob('**/' + p): the same paths in the same order, or the
\* same error.
C8_RglobIsGlobBelowRecursive ==
  (last.op = "rglob" /\ ~IsAbsolute(input))
     => LET g == glob(this, <<"*", "*", "/">> \o input)
        IN last.res = [exc |-> g.exc, val |-> g.val]

\* C8's case: rglob of a relative pattern has yielded several paths
C8_Witness ==
  /\ last.op = "rglob" /\ ~IsAbsolute(input)
  /\ last.res.exc = None /\ Len(last.res.val) >= 2

\* C9, as claimed: glob and rglob both reject an empty pattern, an absolute
\* pattern and a pattern with a component mixing '**' with other
\* characters, yielding nothing and issuing no request.
C9_MalformedRejected_BothEntryPoints ==
  (last.op \in {"glob", "rglob"}
     /\ (input = EmptyStr \/ IsAbsolute(input) \/ HasMixedRecursive(input)))
     => (last.res.exc # None /\ last.res.val = << >> /\ nreq = 0)

\* C9, amended: glob and rglob both reject an absolute pattern and a
\* pattern with a component mixing '**' with other characters, and glob
\* rejects an empty pattern, yielding nothing and issuing no request.
C9_MalformedRejected ==
  (\/ last.op \in {"glob", "rglob"}
        /\ (IsAbsolute(input) \/ HasMixedRecursive(input))
   \/ last.op = "glob" /\ input = EmptyStr)
     => (/\ last.res.exc \in {"ValueError", "NotImplementedError"}
         /\ last.res.val = << >> /\ nreq = 0)

\* C9's case: from a directory, a pattern whose second component mixes '**'
\* with other characters was rejected
C9_Witness ==
  /\ last.op \in {"glob", "rglob"} /\ IsDirectory(this) /\ this.remote # None
  /\ input = <<"*","*","/","s","*","*">>
  /\ last.res.exc = "ValueError" /\ nreq = 0

-----------------------------------------------------------------------------
(* RemotePath: with_name and with_suffix *)

\* str.rfind(ch), counted from 1: the last position of ch in s, 0 for none
rfind(s, ch) ==
  IF \E i \in 1..Len(s) : s[i] = ch
  THEN CHOOSE i \in 1..Len(s) :
         s[i] = ch /\ \A j \in (i + 1)..Len(s) : s[j] # ch
  ELSE 0

\* PurePath.suffix on a name whose last '.' is at position k: the final
\* component's extension, '' when the dot is first, last or missing
SuffixFrom(nm, k) ==
  IF 1 < k /\ k < Len(nm) THEN SubSeq(nm, k, Len(nm)) ELSE EmptyStr

\* PurePath.suffix
suffix(self) == SuffixFrom(name(self), rfind(name(self), "."))

\* self._parts[:-1] + [name], with self's drive, root and remote
ReplaceName(self, nm) ==
  _from_parsed_parts(self.drv, self.root,
                     Append(SubSeq(self.parts, 1, Len(self.parts) - 1), nm),
                     self.remote)

\* with_name, t being parse_parts((name,))
WithNameParsed(self, nm, t) ==
  IF \/ nm = EmptyStr
     \/ nm[Len(nm)] = sep
     \/ t.drv # EmptyStr
     \/ t.root # EmptyStr
     \/ Len(t.parts) # 1
  THEN Raise("ValueError")
  ELSE Return(ReplaceName(self, nm))

\* RemotePath.with_name(name)
with_name(self, nm) ==
  IF name(self) = EmptyStr THEN Raise("ValueError")
  ELSE WithNameParsed(self, nm, parse_parts(<<nm>>))

\* with_suffix, nm being self.name and old_suffix self.suffix
WithSuffixOld(self, nm, sfx, old_suffix) ==
  IF old_suffix = EmptyStr
  THEN Return(ReplaceName(self, nm \o sfx))
  ELSE Return(ReplaceName(self,
                SubSeq(nm, 1, Len(nm) - Len(old_suffix)) \o sfx))

\* RemotePath.with_suffix(suffix)
with_suffix(self, sfx) ==
  IF Contains(sfx, <<sep>>) THEN Raise("ValueError")
  ELSE IF (sfx # EmptyStr /\ sfx[1] # ".") \/ sfx = <<".">>
  THEN Raise("ValueError")
  ELSE IF name(self) = EmptyStr THEN Raise("ValueError")
  ELSE WithSuffixOld(self, name(self), sfx, suffix(self))

-----------------------------------------------------------------------------
(* The path algebra's specification: operations on a path object that       *)
(* issue no request.                                                        *)

BaseStrings == { EmptyStr, <<"s">>, <<"/","s">>, <<"s","/","t">>, <<"/">> }

BasePaths == { P(q, h) : q \in BaseStrings, h \in {None, "H1"} }

\* what a join is given: str arguments (empty, relative, anchored, '.',
\* with a trailing separator) and path objects with any handle or none
JoinArgs ==
  { StrArg(q) : q \in { EmptyStr, <<"t">>, <<"a","/","b">>, <<"/","r">>,
                         <<".">>, <<"u","/">> } }
    \cup { PathArg(P(q, h)) : q \in { EmptyStr, <<"t">>, <<"/","r">> },
                              h \in {None} \cup Handles }

InitPath ==
  /\ store = << >> /\ this \in BasePaths
  /\ input \in SeqsUpTo(JoinArgs, MaxJoinArgs)
  /\ last = NoCall /\ nreq = 0 /\ denied = {} /\ NoGlobs

JoinPath == Call("joinpath", Result(None, joinpath(this, input), 0))

\* joinpath(*args).relative_to(self): the joined path, taken relative to
\* the path it was joined to
RelativeToJoined ==
  Call("joinpath.relative_to",
       Result(relative_to(joinpath(this, input), <<PathArg(this)>>).exc,
              relative_to(joinpath(this, input), <<PathArg(this)>>).val, 0))

NextPath == JoinPath \/ RelativeToJoined

SpecPath == InitPath /\ [][NextPath]_vars

-----------------------------------------------------------------------------
(* Claim C10: join *)

\* the segments one join argument stands for
ArgSegments(a) == IF a.kind = "path" THEN a.p.parts ELSE Segments(a.s)

\* the argument is anchored: its first segment is a root
ArgRooted(a) ==
  Len(ArgSegments(a)) > 0 /\ ArgSegments(a)[1] \in {<<sep>>, <<sep, sep>>}

RECURSIVE Flatten(_)
\* the segments of the arguments, left to right
Flatten(args) ==
  IF Len(args) = 0 THEN << >>
  ELSE ArgSegments(args[1]) \o Flatten(Tail(args))

\* the first non-empty handle the arguments supply, None when none does
RECURSIVE FirstHandle(_)
FirstHandle(args) ==
  IF Len(args) = 0 THEN None
  ELSE IF args[1].kind = "path" /\ args[1].p.remote # None
       THEN args[1].p.remote
       ELSE FirstHandle(Tail(args))

\* C10, as claimed: join(base, *parts) has base's segments followed by the
\* parsed parts, and base's handle unless a part supplies one, in which
\* case the first non-empty handle of the parts.
C10_JoinSegmentsAndPartsHandle ==
  last.op = "joinpath"
     => /\ last.res.val.parts = this.parts \o Flatten(input)
        /\ last.res.val.remote =
             (IF FirstHandle(input) # None THEN FirstHandle(input)
              ELSE this.remote)

\* C10, amended: join(base, *parts) has base's segments followed by the
\* parsed parts when no part is anchored, and the segments from the last
\* anchored part on otherwise; its handle is base's handle when base has
\* one, and otherwise the first non-empty handle of the parts.
C10_JoinSegmentsAndBaseHandle ==
  last.op = "joinpath"
     => /\ (\A i \in 1..Len(input) : ~ArgRooted(input[i]))
             => last.res.val.parts = this.parts \o Flatten(input)
        /\ \A k \in 1..Len(input) :
             (ArgRooted(input[k])
                /\ \A j \in (k+1)..Len(input) : ~ArgRooted(input[j]))
             => last.res.val.parts = Flatten(SubSeq(input, k, Len(input)))
        /\ last.res.val.remote =
             (IF this.remote # None THEN this.remote ELSE FirstHandle(input))

\* C10's case: a base with handle H1 was joined with a part carrying H2
C10_Witness ==
  /\ last.op = "joinpath" /\ this.remote = "H1" /\ FirstHandle(input) = "H2"
  /\ last.res.val.remote = "H1"
  /\ Len(last.res.val.parts) > Len(this.parts)

-----------------------------------------------------------------------------
(* Sequences of path operations: each operation is applied to the path at   *)
(* hand, and the path it returns is the path at hand from then on.          *)

ChainStrings ==
  { EmptyStr, <<"s">>, <<"/","s">>, <<"s","/","t",".","x">>, <<"/">>,
    <<"/","/","s">>, <<".","h">> }

ChainPaths == { P(q, h) : q \in ChainStrings, h \in {None, "H1"} }

\* arguments of joinpath in a sequence of operations
ChainJoinArgs ==
  { <<StrArg(q)>> : q \in { EmptyStr, <<"t">>, <<"/","r">> } }
    \cup { <<PathArg(P(<<"t">>, "H2"))>> }

\* names given to with_name: well-formed, empty, with a separator in any
\* place, '.', and with an extension
NameArgs ==
  { EmptyStr, <<"b">>, <<"c",".","x">>, <<"a","/","b">>, <<"/","a">>,
    <<"a","/">>, <<".","/","a">>, <<"a","/",".">>, <<".">> }

\* suffixes given to with_suffix
SuffixArgs ==
  { EmptyStr, <<".","y">>, <<"y">>, <<".">>, <<".","a","/","b">>, <<"/">> }

\* paths given to relative_to
OtherArgs ==
  { P(q, None) : q \in { EmptyStr, <<"s">>, <<"/">>, <<"/","s">>, <<"t">> } }

\* an operation on `this` with argument arg and outcome r: the returned
\* path is the path at hand from then on, a failure leaves it as it was
Apply(op, arg, r) ==
  /\ last' = [op |-> op, res |-> r]
  /\ input' = [self |-> this, arg |-> arg]
  /\ this' = IF r.exc = None THEN r.val ELSE this
  /\ UNCHANGED <<store, nreq, denied, cache, trav>>

InitChain ==
  /\ store = << >> /\ this \in ChainPaths /\ input = None
  /\ last = NoCall /\ nreq = 0 /\ denied = {} /\ NoGlobs

ChainJoin ==
  \E a \in ChainJoinArgs :
    /\ Len(joinpath(this, a).parts) <= MaxParts
    /\ Apply("joinpath", a, Return(joinpath(this, a)))

ChainParent == Apply("parent", None, Return(parent(this)))

ChainWithName == \E n \in NameArgs : Apply("with_name", n, with_name(this, n))

ChainWithSuffix ==
  \E x \in SuffixArgs : Apply("with_suffix", x, with_suffix(this, x))

ChainRelativeTo ==
  \E o \in OtherArgs :
    Apply("relative_to", o, relative_to(this, <<PathArg(o)>>))

NextChain ==
  ChainJoin \/ ChainParent \/ ChainWithName \/ ChainWithSuffix
    \/ ChainRelativeTo

SpecChain == InitChain /\ [][NextChain]_vars

-----------------------------------------------------------------------------
(* Claims C11, C12: parent, and the shape of segments *)

\* p is a single rooted segment: the root and nothing else
SingleRooted(p) == Len(p.parts) = 1 /\ p.root # EmptyStr

\* p is q extended by exactly one final segment
ExtendsByOne(p, q) ==
  /\ Len(p.parts) = Len(q.parts) + 1
  /\ SubSeq(p.parts, 1, Len(q.parts)) = q.parts
  /\ p.root = q.root

\* C11, as claimed: for every path p, the empty relative path included,
\* parent(p) is a strict ancestor of p (p is parent(p) extended by exactly
\* one final segment) unless p is a single rooted segment, in which case
\* parent(p) == p.
C11_ParentStrictAncestor ==
  last.op = "parent"
     => IF SingleRooted(input.self)
        THEN PathEq(last.res.val, input.self)
        ELSE ExtendsByOne(input.self, last.res.val)

\* C11, amended: parent(p) is a strict ancestor of p unless p is a single
\* rooted segment or the empty relative path, in which cases parent(p) == p.
C11_ParentStrictAncestorOrSelf ==
  last.op = "parent"
     => IF SingleRooted(input.self) \/ Len(input.self.parts) = 0
        THEN PathEq(last.res.val, input.self)
        ELSE ExtendsByOne(input.self, last.res.val)

\* C11's cases: parent was taken of a root, and of a rooted path of two
\* parts, reached through earlier operations
C11_Witness ==
  /\ last.op = "parent" /\ SingleRooted(input.self)
  /\ PathEq(last.res.val, input.self)

\* a segment of p holds a separator (the anchor part apart)
HasSeparatorInSegment(p) ==
  \E i \in 1..Len(p.parts) :
    /\ ~(i = 1 /\ p.root # EmptyStr)
    /\ Contains(p.parts[i], <<sep>>)

\* a name with_name is to refuse: empty, with a separator, or of several
\* segments (or of none)
BadName(n) ==
  n = EmptyStr \/ Contains(n, <<sep>>) \/ Len(Segments(n)) # 1

\* C12: in every path reached by a sequence of parse, join, parent,
\* with_name, with_suffix and relative_to no segment contains the separator;
\* with_name fails for every name that is empty, contains a separator or
\* decomposes into several segments, and a failure leaves no new path.
C12_NoSeparatorInSegments ==
  /\ ~HasSeparatorInSegment(this)
  /\ (last.op = "with_name" /\ BadName(input.arg))
       => /\ last.res.exc = "ValueError"
          /\ this = input.self

-----------------------------------------------------------------------------
(* Claim C13: relative_to after join *)

\* C13: for every path p (rooted, relative or empty) and every rel without
\* a leading root, join(p, rel).relative_to(p) succeeds and equals rel.
C13_RelativeToInvertsJoin ==
  (last.op = "joinpath.relative_to"
     /\ \A i \in 1..Len(input) : ~ArgRooted(input[i]))
     => /\ last.res.exc = None
        /\ last.res.val.parts = Flatten(input)
        /\ last.res.val.root = EmptyStr

\* C13's case: a non-empty rel was joined to a rooted path and recovered
C13_Witness ==
  /\ last.op = "joinpath.relative_to" /\ this.root # EmptyStr
  /\ Len(this.parts) > 1
  /\ \A i \in 1..Len(input) : ~ArgRooted(input[i])
  /\ last.res.exc = None
  /\ Len(last.res.val.parts) = 3

-----------------------------------------------------------------------------
(* Calls made one after the other on one path object while the collection   *)
(* changes: assets are uploaded to it and deleted from it between calls.    *)

LiveUniverse ==
  { <<"s","/","a">>, <<"s","/","t","/","a">>, <<"a">> }

LiveStores == { q \in SeqsUpTo(LiveUniverse, MaxLiveAssets) : NoRepeat(q) }

LivePaths ==
  { P(q, h) : q \in { EmptyStr, <<"s">>, <<"s","/","a">>, <<"s","/","t">> },
              h \in {None, "H1"} }

\* a faulty variant of a call: a call that repeats the call before it is
\* answered with what was retained from that call
LiveCall_retained(op, r) ==
  /\ last.n < MaxCalls
  /\ last' = [op |-> op,
              res |-> IF last.op = op THEN last.res
                      ELSE [exc |-> r.exc, val |-> r.val],
              n |-> last.n + 1, at |-> store,
              before |-> [op |-> last.op, res |-> last.res]]
  /\ nreq' = IF last.op = op THEN 0 ELSE r.req
  /\ UNCHANGED <<store, this, input, denied, cache, trav>>

\* a call on `this`, iterated to its end: its outcome and its requests; n
\* counts the calls made so far, `at` is the store the call was made on and
\* `before` the call before this one
LiveCall(op, r) ==
  /\ last.n < MaxCalls
  /\ last' = [op |-> op, res |-> [exc |-> r.exc, val |-> r.val],
              n |-> last.n + 1, at |-> store,
              before |-> [op |-> last.op, res |-> last.res]]
  /\ nreq' = r.req
  /\ UNCHANGED <<store, this, input, denied, cache, trav>>

InitLive ==
  /\ store \in LiveStores /\ this \in LivePaths /\ input = None
  /\ last = [op |-> "none", res |-> [exc |-> None, val |-> None], n |-> 0,
             at |-> store, before |-> None]
  /\ nreq = 0 /\ denied = {} /\ NoGlobs

LiveExists == LiveCall("exists", exists(this))
LiveIsDir == LiveCall("is_dir", is_dir(this))
LiveIsFile == LiveCall("is_file", is_file(this))
LiveScandir == LiveCall("scandir", scandir(this))
LiveIterdir == LiveCall("iterdir", iterdir(this))

\* the collection gains an asset (somebody uploads one)
Upload ==
  \E a \in LiveUniverse :
    /\ Len(store) < MaxLiveAssets
    /\ a \notin Range(store)
    /\ store' = Append(store, a)
    /\ UNCHANGED <<this, input, last, nreq, denied, cache, trav>>

\* the collection loses an asset (somebody deletes one)
Delete ==
  \E i \in 1..Len(store) :
    /\ store' = SubSeq(store, 1, i - 1) \o SubSeq(store, i + 1, Len(store))
    /\ UNCHANGED <<this, input, last, nreq, denied, cache, trav>>

NextLive ==
  LiveExists \/ LiveIsDir \/ LiveIsFile \/ LiveScandir \/ LiveIterdir
    \/ Upload \/ Delete

SpecLive == InitLive /\ [][NextLive]_vars

-----------------------------------------------------------------------------
(* Claim C14: every call asks the Archive Session *)

\* the outcome of the last call is the one the store determines, for a path
\* of at least one segment
ReflectsStore ==
  /\ last.op = "exists" => last.res.val = (IsAsset(this) \/ IsDirectory(this))
  /\ last.op = "is_dir" => last.res.val = IsDirectory(this)
  /\ last.op = "is_file" => last.res.val = IsAsset(this)
  /\ last.op \in {"scandir", "iterdir"} =>
       IF IsDirectory(this)
       THEN /\ last.res.exc = None
            /\ last.op = "iterdir" => last.res.val = ChildNames(this)
            /\ last.op = "scandir" =>
                 PartsOf(last.res.val) =
                   [i \in 1..Len(ChildNames(this)) |->
                      Append(this.parts, ChildNames(this)[i])]
       ELSE last.res.exc = "NotADirectoryError"

\* C14, as claimed: every invocation of exists, is_dir, is_file or
\* iterate_children on any path issues at least one request to the Archive
\* Session, a repeated invocation included, and its result reflects the
\* asset store as it is at the time of the call.
C14_EveryCallAsks ==
  last.op # "none"
     => /\ nreq >= 1
        /\ (last.at = store /\ Len(this.parts) >= 1) => ReflectsStore

\* C14, amended: every invocation on a path that carries a remote handle
\* issues at least one request, a repeated invocation included, and its
\* result reflects the asset store as it is at the time of the call; on a
\* path without a handle no request is issued.
C14_EveryCallWithHandleAsks ==
  last.op # "none"
     => IF this.remote # None
        THEN /\ nreq >= 1
             /\ (last.at = store /\ Len(this.parts) >= 1) => ReflectsStore
        ELSE nreq = 0

\* C14's case: exists was called twice in a row on the same path with a
\* handle, the store changed in between, and the second call asked the
\* Archive Session and saw the change
C14_Witness ==
  /\ last.op = "exists" /\ last.n >= 2 /\ this.remote # None
  /\ last.before.op = "exists"
  /\ last.before.res.val = FALSE /\ last.res.val = TRUE
  /\ nreq >= 1

-----------------------------------------------------------------------------
(* Globs over a collection part of which the Archive Session refuses to     *)
(* list: a query on a refused path raises a permission-denied error.        *)

\* 's/t/a.h' and 's/u/b.h' in sibling directories, with 's/a.h' beside them
SiblingScenario ==
  << <<"s","/","t","/","a",".","h">>, <<"s","/","u","/","b",".","h">>,
     <<"s","/","a",".","h">> >>

DeniedStores == { Scenario, SiblingScenario, DepthScenario }

DeniedStarts == { P(<<"s">>, "H1"), P(<<"s","/","t">>, "H1") }

\* the paths that may be refused: the start directory, directories below
\* it, and an asset
Deniable ==
  { <<"s">>, <<"s","/","t">>, <<"s","/","u">>, <<"s","/","t","/","u">>,
    <<"s","/","t","/","a",".","h">> }

DeniedSets == { D \in SUBSET Deniable : Cardinality(D) <= MaxDenied }

DeniedPatterns ==
  { <<"*">>, <<"*","/","*">>, <<"*","*">>, <<"*","*","/","*",".","h">>,
    <<"*","/","a",".","h">>, <<"t","/","a",".","h">>, <<"u","/","*">>,
    <<"*","*","/","a",".","h">>, <<"t">> }

InitDenied ==
  /\ store \in DeniedStores /\ this \in DeniedStarts
  /\ input \in DeniedPatterns /\ denied \in DeniedSets
  /\ last = NoCall /\ nreq = 0 /\ NoGlobs

NextDenied == Glob \/ Rglob

SpecDenied == InitDenied /\ [][NextDenied]_vars

-----------------------------------------------------------------------------
(* Claim C15: permission-denied errors during a glob *)

\* the segment sequence q lies in an inaccessible subtree: at or below a
\* refused path
Inaccessible(q) ==
  \E x \in denied :
    Len(Segments(x)) <= Len(q) /\ SubSeq(q, 1, Len(Segments(x))) = Segments(x)

\* the components the last call selected with
CalledParts ==
  IF last.op = "rglob" THEN <<<<"*", "*">>>> \o PatternParts(input)
  ELSE PatternParts(input)

\* C15: when a query raises a permission-denied error during a glob, the
\* glob does not propagate it: it completes normally and still yields every
\* match outside the inaccessible subtree, matches in sibling directories
\* listed after it included.
C15_PermissionDeniedSwallowed ==
  (last.op \in {"glob", "rglob"} /\ denied # {})
     => /\ last.res.exc = None
        /\ Range(PartsOf(last.res.val)) \subseteq Selected(this, CalledParts)
        /\ \A q \in Selected(this, CalledParts) :
             ~Inaccessible(q) => q \in Range(PartsOf(last.res.val))

-----------------------------------------------------------------------------
(* Glob generators in flight.  glob and rglob are generators: each caller   *)
(* advances its own, one yielded path at a time, and the callers' steps     *)
(* interleave.  _make_selector is wrapped in functools.lru_cache, so the    *)
(* callers share the selector chain of a pattern.                           *)

Callers == {1, 2}

\* 's/t/b.h' is selected by '**/**/*.h' from 's' and again from 's/t'
TravStores ==
  { <<<<"s","/","a",".","h">>, <<"s","/","t","/","b",".","h">>>> }

\* the start paths: one directory, held with two handles and with none
TravStarts == { P(<<"s">>, h) : h \in {None} \cup Handles }

\* the calls made: glob('*'), glob('**/**/*.h') and rglob('*.h'), whose
\* chain '**/*.h' is also the successor of the chain of '**/**/*.h'
TravCalls ==
  { [kind |-> "glob", pattern |-> <<"*">>],
    [kind |-> "glob", pattern |-> <<"*","*","/","*","*","/","*",".","h">>],
    [kind |-> "rglob", pattern |-> <<"*",".","h">>] }

\* no generator: the caller has not called glob yet
Idle ==
  [st |-> "idle", kind |-> None, start |-> None, pattern |-> None,
   hit |-> FALSE, built_by |-> None, dedup |-> FALSE, stream |-> << >>,
   pos |-> 1, yielded |-> {}, out |-> << >>, exc |-> None]

\* the entries the cache holds for a pattern path: lru_cache keys by the
\* argument's hash and equality, which for a path are those of its parts
Cached(key) == { e \in cache : e.key = key }

\* _make_selector behind functools.lru_cache: a hit returns the chain built
\* before, a miss builds it
CachedSelector(key) ==
  IF Cached(key) # {} THEN Return((CHOOSE e \in Cached(key) : TRUE).chain)
  ELSE _make_selector(key)

\* the handle of the pattern path the cached chain was built from
BuiltBy(key, remote) ==
  IF Cached(key) # {} THEN (CHOOSE e \in Cached(key) : TRUE).remote
  ELSE remote

\* what a miss adds to the cache: the chain, and the chain of every suffix
\* of the pattern (each successor is built by _make_selector too), unless
\* cached already; remote is the handle of the pattern path
NewEntries(key, chain, remote) ==
  { [key |-> SubSeq(key, i, Len(key)),
     chain |-> SubSeq(chain, i, Len(chain)),
     remote |-> remote] :
      i \in { j \in 1..Len(key) : Cached(SubSeq(key, j, Len(key))) = {} } }

\* what selector.select_from(self) produces before `if p not in yielded` of
\* the first selector, d being the outcome of self.is_dir()
TopStream(sel, self, d) ==
  IF ~d.val THEN << >>
  ELSE IF sel[1].cls = Recursive
  THEN RecursiveLoop(sel, 1, _iterate_directories(self).val, 1,
                     Result(None, << >>, 0)).val
  ELSE _select_from(sel, 1, self).val

\* a generator that raised before it yielded
Failed(call, self, exc) ==
  [rec |-> [Idle EXCEPT !.st = "done", !.kind = call.kind, !.start = self,
                        !.pattern = call.pattern, !.exc = exc],
   add |-> {}]

\* a generator whose selector is sel, found in the cache or built
Opened(call, self, key, sel) ==
  IF sel.exc # None THEN Failed(call, self, sel.exc)
  ELSE [rec |-> [st |-> "active", kind |-> call.kind, start |-> self,
                 pattern |-> call.pattern,
                 hit |-> Cached(key) # {},
                 built_by |-> BuiltBy(key, self.remote),
                 dedup |-> sel.val[1].cls = Recursive,
                 stream |-> TopStream(sel.val, self, is_dir(self)),
                 pos |-> 1, yielded |-> {}, out |-> << >>, exc |-> None],
        add |-> NewEntries(key, sel.val, self.remote)]

\* the pattern path _make_selector is given by glob, and by rglob
PatternKey(call, self) ==
  IF call.kind = "glob" THEN P(call.pattern, self.remote).parts
  ELSE joinpath(P(<<"*", "*">>, None),
                <<PathArg(P(call.pattern, self.remote))>>).parts

\* RemotePath.glob / rglob up to the selector
Open(call, self) ==
  IF call.kind = "glob" /\ call.pattern = EmptyStr
  THEN Failed(call, self, "ValueError")
  ELSE IF parse_parts(<<call.pattern>>).root # EmptyStr
  THEN Failed(call, self, "NotImplementedError")
  ELSE Opened(call, self, PatternKey(call, self),
              CachedSelector(PatternKey(call, self)))

\* a faulty variant of the test `p not in yielded`: the set is one for all
\* generators
Seen_by_any(t, p) == \E u \in Callers : p.parts \in trav[u].yielded

\* `p in yielded`, for the generator of caller t
Seen(t, p) == p.parts \in trav[t].yielded

RECURSIVE NextUnseen(_, _)
\* the position of the next path the generator of caller t yields, 0 when
\* it has none left
NextUnseen(t, i) ==
  IF i > Len(trav[t].stream) THEN 0
  ELSE IF trav[t].dedup /\ Seen(t, trav[t].stream[i]) THEN NextUnseen(t, i + 1)
  ELSE i

\* the generator of caller t yields stream[i], or ends when i = 0 (then
\* `finally: yielded.clear()`)
Advance(t, i) ==
  IF i = 0
  THEN trav' = [trav EXCEPT ![t].st = "done", ![t].yielded = {}]
  ELSE trav' = [trav EXCEPT
                  ![t].out = Append(@, trav[t].stream[i]),
                  ![t].yielded = IF trav[t].dedup
                                 THEN @ \cup {trav[t].stream[i].parts}
                                 ELSE @,
                  ![t].pos = i + 1]

\* caller t has a generator o.rec, and the cache has gained o.add
Install(t, o) ==
  /\ trav' = [trav EXCEPT ![t] = o.rec]
  /\ cache' = cache \cup o.add

InitTrav ==
  /\ store \in TravStores /\ this \in { P(<<"s">>, h) : h \in Handles }
  /\ input = None /\ last = NoCall /\ nreq = 0 /\ denied = {}
  /\ cache = {} /\ trav = [t \in Callers |-> Idle]

\* caller t calls glob or rglob on a start path and first advances the
\* generator up to the selection
Begin ==
  \E t \in Callers, call \in TravCalls, self \in TravStarts :
    /\ trav[t].st = "idle"
    /\ Install(t, Open(call, self))
    /\ UNCHANGED <<store, this, input, last, nreq, denied>>

\* caller t advances its generator by one step
Next ==
  \E t \in Callers :
    /\ trav[t].st = "active"
    /\ Advance(t, NextUnseen(t, trav[t].pos))
    /\ UNCHANGED <<store, this, input, last, nreq, denied, cache>>

NextTrav == Begin \/ Next \/ Scandir

SpecTrav == InitTrav /\ [][NextTrav]_vars

-----------------------------------------------------------------------------
(* Claims C16, C17: what the callers of glob share *)

\* C16: every path yielded by scandir and by glob / rglob started at a path
\* carries exactly that path's remote handle, also when the selector chain
\* of the pattern was built and cached by an earlier glob from a path with
\* another handle or with none.
C16_YieldsCarryStartHandle ==
  /\ \A t \in Callers :
       \A i \in 1..Len(trav[t].out) :
          trav[t].out[i].remote = trav[t].start.remote
  /\ last.op = "scandir" =>
       \A i \in 1..Len(last.res.val) : last.res.val[i].remote = this.remote

\* C16's case: a glob whose chain was found in the cache, built from a
\* pattern path with another handle, has yielded
C16_Witness ==
  \E t \in Callers :
    /\ trav[t].hit /\ trav[t].built_by # trav[t].start.remote
    /\ Len(trav[t].out) >= 2
    /\ trav[t].out[1].remote = trav[t].start.remote

\* what the call of caller t yields when it runs alone
Alone(t) ==
  IF trav[t].kind = "glob" THEN glob(trav[t].start, trav[t].pattern)
  ELSE rglob(trav[t].start, trav[t].pattern)

\* seq is the beginning of whole
IsPrefix(seq, whole) ==
  Len(seq) <= Len(whole) /\ SubSeq(whole, 1, Len(seq)) = seq

\* C17: two glob generators that use the same pattern text, and so share
\* one cached selector chain, each yield exactly what they yield when run
\* alone, under every interleaving of their steps; the shared chain is
\* never changed by a traversal.
C17_InterleavedGlobsAsAlone ==
  /\ \A t \in Callers :
       trav[t].st # "idle"
         => LET alone == Alone(t)
            IN /\ IsPrefix(trav[t].out, alone.val)
               /\ trav[t].st = "done"
                    => (trav[t].out = alone.val /\ trav[t].exc = alone.exc)
  /\ \A e \in cache : e.chain = _make_selector(e.key).val

\* C17's case: both callers are in the middle of a glob of '**/**/*.h',
\* which selects a path twice, one of them with the chain the other built,
\* and both have yielded
C17_Witness ==
  /\ \A t \in Callers :
       /\ trav[t].st = "active" /\ trav[t].dedup
       /\ trav[t].pattern = <<"*","*","/","*","*","/","*",".","h">>
       /\ Len(trav[t].out) >= 1
       /\ Len(trav[t].stream) > Len(Alone(t).val)
  /\ \E t \in Callers : trav[t].hit
  /\ trav[1].start.remote = trav[2].start.remote

-----------------------------------------------------------------------------
(* spiminfo.slab_info, on the chunk infos that chunk_info gives for the     *)
(* '*.h5' files of the slab's folder.  A value that may be None is a        *)
(* sequence: << >> for None, <<v>> for the value v.                         *)

Min(a, b) == IF a <= b THEN a ELSE b
Max(a, b) == IF a >= b THEN a ELSE b

\* truth value of an optional number (None and 0 are falsy) and of an
\* optional non-empty str or tuple
TruthyNum(o) == o # << >> /\ o[1] # 0
TruthyObj(o) == o # << >>

\* shape[-3:]
LastThree(shape) ==
  IF Len(shape) <= 3 THEN shape ELSE SubSeq(shape, Len(shape) - 2, Len(shape))

\* zip(a, b) stops at the shorter list
ZipLen(a, b) == Min(Len(a), Len(b))

\* mn1 of a chunk: [0., 0., 0.], moved by the chunk's Shift if it has one
ChunkMin(f) ==
  IF f.Shift = << >> THEN <<0, 0, 0>>
  ELSE [k \in 1..ZipLen(<<0, 0, 0>>, f.Shift[1]) |-> 0 + f.Shift[1][k]]

\* mx1 of a chunk: list(Shape[-3:]), moved by the chunk's Shift if it has one
ChunkMax(f) ==
  IF f.Shift = << >> THEN LastThree(f.Shape)
  ELSE [k \in 1..ZipLen(LastThree(f.Shape), f.Shift[1]) |->
          LastThree(f.Shape)[k] + f.Shift[1][k]]

\* mn = [min(x, y) if x is not None else y for x, y in zip(mn, mn1)]
AccMin(mn, mn1) ==
  [k \in 1..ZipLen(mn, mn1) |->
     IF mn[k] # << >> THEN <<Min(mn[k][1], mn1[k])>> ELSE <<mn1[k]>>]

\* a faulty variant of the accumulation of mx: the chunk's own bound is kept
AccMax_of_chunk(mx, mx1) ==
  [k \in 1..ZipLen(mx, mx1) |-> <<mx1[k]>>]

\* mx = [max(x, y) if x is not None else y for x, y in zip(mx, mx1)]
AccMax(mx, mx1) ==
  [k \in 1..ZipLen(mx, mx1) |->
     IF mx[k] # << >> THEN <<Max(mx[k][1], mx1[k])>> ELSE <<mx1[k]>>]

\* info after a chunk that passed the consistency tests
InfoWith(info, f) ==
  [Subject |-> f.Subject, SlabIndex |-> f.SlabIndex,
   PixelSize |-> IF TruthyNum(f.PixelSize) THEN f.PixelSize ELSE info.PixelSize,
   Shape |-> f.Shape,
   Stainings |-> Append(info.Stainings, f.SampleStaining),
   Chunks |-> Append(info.Chunks, f.Chunk),
   MetaChunks |-> Append(info.MetaChunks, f)]

\* one pass of the loop of slab_info over a chunk's info
SlabChunk(a, f) ==
  IF TruthyObj(a.info.Subject) /\ f.Subject # a.info.Subject
  THEN [a EXCEPT !.exc = "ValueError"]
  ELSE IF TruthyNum(a.info.SlabIndex) /\ f.SlabIndex # a.info.SlabIndex
  THEN [a EXCEPT !.exc = "ValueError"]
  ELSE IF /\ TruthyNum(a.info.PixelSize) /\ TruthyNum(f.PixelSize)
          /\ f.PixelSize # a.info.PixelSize
  THEN [a EXCEPT !.exc = "ValueError"]
  ELSE IF TruthyObj(a.info.Shape) /\ f.Shape # a.info.Shape
  THEN [a EXCEPT !.exc = "ValueError"]
  ELSE [exc |-> None, info |-> InfoWith(a.info, f),
        mn |-> AccMin(a.mn, ChunkMin(f)), mx |-> AccMax(a.mx, ChunkMax(f))]

RECURSIVE SlabLoop(_, _, _)
\* the loop of slab_info: a is what was gathered before chunk i
SlabLoop(files, i, a) ==
  IF i > Len(files) \/ a.exc # None THEN a
  ELSE SlabLoop(files, i + 1, SlabChunk(a, files[i]))

\* info['FOV'] = [mx1 - mn1 for mx1, mn1 in zip(mx, mn)]: the names of the
\* comprehension run over the gathered mx and mn
FieldOfView(mx, mn) ==
  [k \in 1..ZipLen(mx, mn) |-> mx[k][1] - mn[k][1]]

\* the end of slab_info, a being what the loop gathered: None - None is a
\* TypeError
SlabEnd(a) ==
  IF a.exc # None THEN Raise(a.exc)
  ELSE IF \E k \in 1..ZipLen(a.mx, a.mn) : a.mx[k] = << >> \/ a.mn[k] = << >>
  THEN Raise("TypeError")
  ELSE Return([Subject |-> a.info.Subject, SlabIndex |-> a.info.SlabIndex,
               PixelSize |-> a.info.PixelSize, Shape |-> a.info.Shape,
               FOV |-> FieldOfView(a.mx, a.mn),
               Stainings |-> Range(a.info.Stainings),
               Chunks |-> Range(a.info.Chunks),
               MetaChunks |-> a.info.MetaChunks])

\* slab_info(path), files being chunk_info of each of path.glob('*.h5')
slab_info(files) ==
  SlabEnd(SlabLoop(files, 1,
            [exc |-> None,
             info |-> [Subject |-> << >>, SlabIndex |-> << >>,
                       PixelSize |-> << >>, Shape |-> << >>,
                       Stainings |-> << >>, Chunks |-> << >>,
                       MetaChunks |-> << >>],
             mn |-> << << >>, << >>, << >> >>,
             mx |-> << << >>, << >>, << >> >>]))

\* a chunk info as chunk_info returns it
ChunkInfo(sub, slab, px, shape, shift, stain, chunk) ==
  [Subject |-> sub, SlabIndex |-> slab, PixelSize |-> px, Shape |-> shape,
   Shift |-> shift, SampleStaining |-> stain, Chunk |-> chunk]

\* chunks of one slab at several shifts, without a transforms file, without
\* a pixel size, and chunks of another subject, slab, pixel size or shape
ChunkUniverse ==
  { ChunkInfo(<<"A">>, <<1>>, <<1>>, <<2, 2, 2>>, << >>, "x", 1),
    ChunkInfo(<<"A">>, <<1>>, <<1>>, <<2, 2, 2>>, <<<<1, 0, 2>>>>, "x", 2),
    ChunkInfo(<<"A">>, <<1>>, << >>, <<2, 2, 2>>, <<<<0, 3, 0>>>>, "y", 3),
    ChunkInfo(<<"A">>, <<1>>, <<1>>, <<2, 2, 2>>, <<<<2, 1, 0>>>>, "x", 4),
    ChunkInfo(<<"B">>, <<1>>, <<1>>, <<2, 2, 2>>, << >>, "x", 1),
    ChunkInfo(<<"A">>, <<2>>, <<1>>, <<2, 2, 2>>, << >>, "x", 1),
    ChunkInfo(<<"A">>, <<1>>, <<2>>, <<2, 2, 2>>, << >>, "x", 1),
    ChunkInfo(<<"A">>, <<1>>, <<1>>, <<1, 2, 2>>, <<<<1, 1, 1>>>>, "x", 5),
    ChunkInfo(<<"A">>, <<1>>, <<1>>, <<7, 2, 2, 2>>, <<<<0, 0, 1>>>>, "x", 6) }

InitSlab ==
  /\ store = << >> /\ this = None
  /\ input \in SeqsUpTo(ChunkUniverse, MaxChunks)
  /\ last = NoCall /\ nreq = 0 /\ denied = {} /\ NoGlobs

\* the outcome of a call that issues no request
Outcome(r) == Result(r.exc, r.val, 0)

SlabInfo == Call("slab_info", Outcome(slab_info(input)))

NextSlab == SlabInfo

SpecSlab == InitSlab /\ [][NextSlab]_vars

-----------------------------------------------------------------------------
(* Claim C18: the field of view of a slab *)

\* the greatest and the least number of a non-empty set
Greatest(S) == CHOOSE x \in S : \A y \in S : y <= x
Least(S) == CHOOSE x \in S : \A y \in S : x <= y

\* C18, as claimed: the FOV of a slab is the extent of the last iterated
\* chunk only, and not (max over chunks of shift + shape) - (min over
\* chunks of shift).
C18_FovOfLastChunk ==
  (last.op = "slab_info" /\ last.res.exc = None)
     => last.res.val.FOV =
          [k \in 1..3 |-> ChunkMax(input[Len(input)])[k]
                            - ChunkMin(input[Len(input)])[k]]

\* C18, amended: the FOV of a slab of at least one chunk is, per axis,
\* (max over chunks of shift + shape) - (min over chunks of shift).
C18_FovOverAllChunks ==
  (last.op = "slab_info" /\ last.res.exc = None)
     => last.res.val.FOV =
          [k \in 1..3 |->
             Greatest({ ChunkMax(input[i])[k] : i \in 1..Len(input) })
               - Least({ ChunkMin(input[i])[k] : i \in 1..Len(input) })]

\* C18's case: a slab of several chunks at different shifts, whose FOV is
\* larger than the extent of its last chunk
C18_Witness ==
  /\ last.op = "slab_info" /\ last.res.exc = None /\ Len(input) >= 2
  /\ \E k \in 1..3 :
       last.res.val.FOV[k] >
         ChunkMax(input[Len(input)])[k] - ChunkMin(input[Len(input)])[k]

-----------------------------------------------------------------------------
(* Claim C19: exists, is_file and is_dir agree *)

\* C19: for every path with a remote handle and every asset store, none of
\* exists, is_file, is_dir fails, and exists is true if and only if
\* is_file or is_dir is true.
C19_ExistsIffFileOrDir ==
  (last.op \in {"exists", "is_file", "is_dir"} /\ this.remote # None)
     => /\ exists(this).exc = None /\ is_file(this).exc = None
        /\ is_dir(this).exc = None
        /\ exists(this).val <=> (is_file(this).val \/ is_dir(this).val)

\* C19's cases: a path that is neither a file nor a directory and was found
\* not to exist, and of an asset's path that was found to exist
C19_Witness ==
  /\ this.remote # None /\ last.op = "exists"
  /\ \/ ~last.res.val /\ ~is_file(this).val /\ ~is_dir(this).val
        /\ Len(store) > 0 /\ Len(this.parts) > 0
     \/ last.res.val /\ is_file(this).val

=============================================================================
